---- MODULE Spec2Model ----
(***************************************************************************)
(* The hopper block of server/block/hopper.go: its per-tick cooldown state *)
(* machine, the insert / extract transfer protocol against the containers  *)
(* next to it, the viewer registry shared with the inventory's change      *)
(* callback, and the NBT persistence adapter.                              *)
(*                                                                         *)
(* Slots are indexed from 0 as in the Go code.  An inventory is a function *)
(* from 0..n-1 to stacks; a stack is a record [item, count].               *)
(***************************************************************************)
EXTENDS Integers, Sequences, FiniteSets, TLC

VARIABLES
    blk,      \* the Hopper value stored in the world at pos (the published snapshot)
    invs,     \* heap of hopper inventories: id -> [0..HopperSlots-1 -> stack]
    viewers,  \* heap of viewer maps, one per inventory (NewHopper makes both): id -> set
    world,    \* the blocks next to the hopper: "up" and "facing" -> container
    now,      \* the world's current tick
    res,      \* what the last Tick (or DecodeNBT) did (history variable)
    notes,    \* the ViewSlotChange calls it made, in order
    reg,      \* history: viewers passed to AddViewer and not to RemoveViewer since
    mu,       \* the RWMutex viewerMu: [w |-> writer holds it, r |-> set of readers]
    pc,       \* per thread: the position in AddViewer / RemoveViewer / the callback
    arg,      \* per thread: the viewer argument of the running call
    seen,     \* per thread: the viewers the running fan-out has notified so far
    atStart,  \* per thread: the viewer map when the running fan-out took the read lock
    must,     \* per thread: history, viewers whose AddViewer returned before the change
    mustNot,  \* per thread: history, viewers whose RemoveViewer returned before it
    loc       \* per thread: the local variables of the running insertItem / extractItem

vars == <<blk, invs, viewers, world, now, res, notes, reg, mu, pc, arg, seen,
          atStart, must, mustNot, loc>>

----------------------------------------------------------------------------
(* Bounds of the model *)

\* the largest count a stack of a test item may have (item.Stack.MaxCount)
MaxCount == 2
\* the number of slots of a neighbouring container
ContainerSlots == 2
\* the number of world ticks explored
MaxTick == 11
\* the number of DecodeNBT calls explored
MaxDecodes == 1

(* Program constants *)

\* inventory.New(5, ...)
HopperSlots == 5
\* h.TransferCooldown = 8
TransferTicks == 8

Items == {"a", "b"}
NoItem == "none"
Viewers == {"v1", "v2"}
Threads == {1, 2, 3}

\* cube.Faces()
Faces == {"down", "up", "north", "south", "west", "east"}
FaceUp == "up"
FaceDown == "down"

----------------------------------------------------------------------------
(* item.Stack *)

EmptyStack == [item |-> NoItem, count |-> 0]

NewStack(it, n) == [item |-> it, count |-> n]

Count(s) == s.count

Empty(s) == s.count <= 0 \/ s.item = NoItem

\* Grow changes the count by n and never lets it drop below 0
Grow(s, n) == [s EXCEPT !.count = IF s.count + n < 0 THEN 0 ELSE s.count + n]

\* two stacks are comparable when they hold the same item or one of them is empty
Comparable(s, s2) == Empty(s) \/ Empty(s2) \/ s.item = s2.item

----------------------------------------------------------------------------
(* inventory.Inventory *)

Slots(inv) == inv

Size(inv) == Cardinality(DOMAIN inv)

ValidSlot(inv, slot) == slot \in DOMAIN inv

\* Item returns the stack in the slot, or an empty stack and an error
Item(inv, slot) == IF ValidSlot(inv, slot) THEN inv[slot] ELSE EmptyStack

\* the stack as the inventory stores it: capacity is enforced on every write
Capped(s) == IF s.count > MaxCount THEN Grow(s, MaxCount - s.count) ELSE s

\* SetItem overwrites the slot; an invalid slot is an error and nothing changes
SetItem(inv, slot, s) ==
    IF ValidSlot(inv, slot)
    THEN [ok |-> TRUE, inv |-> [inv EXCEPT ![slot] = Capped(s)], slot |-> slot,
          item |-> Capped(s)]
    ELSE [ok |-> FALSE, inv |-> inv, slot |-> slot, item |-> EmptyStack]

MinOf(S) == CHOOSE x \in S : \A y \in S : x <= y

\* AddItem of a one-unit stack: the first stack of the same item with room takes
\* it, else the first empty slot; with neither the inventory is full (error)
AddItem(inv, s) ==
    LET merge == {i \in DOMAIN inv : /\ ~Empty(inv[i])
                                     /\ inv[i].item = s.item
                                     /\ inv[i].count < MaxCount}
        free == {i \in DOMAIN inv : Empty(inv[i])}
    IN  IF Empty(s) THEN [ok |-> TRUE, inv |-> inv, slot |-> -1, item |-> EmptyStack]
        ELSE IF merge # {}
        THEN LET i == MinOf(merge)
             IN  [ok |-> TRUE, inv |-> [inv EXCEPT ![i] = Grow(inv[i], 1)],
                  slot |-> i, item |-> Grow(inv[i], 1)]
        ELSE IF free # {}
        THEN LET i == MinOf(free)
             IN  [ok |-> TRUE, inv |-> [inv EXCEPT ![i] = s], slot |-> i, item |-> s]
        ELSE [ok |-> FALSE, inv |-> inv, slot |-> -1, item |-> EmptyStack]

EmptyInv(n) == [i \in 0..(n - 1) |-> EmptyStack]

\* the number of units of item it held by an inventory
RECURSIVE UnitsFrom(_, _, _)
UnitsFrom(inv, it, i) ==
    IF i \notin DOMAIN inv THEN 0
    ELSE (IF inv[i].item = it THEN inv[i].count ELSE 0) + UnitsFrom(inv, it, i + 1)

Units(inv, it) == UnitsFrom(inv, it, 0)

----------------------------------------------------------------------------
(* The blocks next to the hopper.  kind "none" is a block that is no        *)
(* Container, "inert" a Container whose Inventory is nil, "generic" a plain  *)
(* Container, "special" one that is HopperInsertable and HopperExtractable.  *)

\* what a HopperInsertable answers to an offered stack is decided by the block
\* itself: per item, whether it is allowed and the target slot.  A block that is
\* no HopperInsertable is never asked.
Refuse == [it \in Items |-> [allowed |-> FALSE, slot |-> 0]]

NoContainer == [kind |-> "none", inv |-> EmptyInv(0), pol |-> Refuse]

IsContainer(c) == c.kind \in {"generic", "special"}

\* pos.Side(face): the block above is "up"; every other side the hopper may face
\* is the one block called "facing"
Side(face) == IF face = FaceUp THEN "up" ELSE "facing"

\* the answers explored: every item or only "b" allowed, into the first or the
\* last slot, or nothing allowed
Policies ==
    {Refuse} \cup
    {[it \in Items |-> [allowed |-> it \in ok, slot |-> k]] :
        ok \in {Items, {"b"}}, k \in {0, ContainerSlots - 1}}

\* the slots a HopperExtractable may nominate; a block that is none is never asked
Nominations(origin) == IF origin.kind = "special" THEN DOMAIN origin.inv ELSE {0}

\* HopperInsertable.InsertItem(stack, face) -> (allowed, targetSlot)
InsertItem(e, stack, face) == e.pol[stack.item]

\* HopperExtractable.ExtractItem() -> (stack, slot): the stack it would give up
ExtractItem(origin, es) == [stack |-> Item(origin.inv, es), slot |-> es]

----------------------------------------------------------------------------
(* Hopper.insertItem: the loop over h.inventory.Slots(), from sourceSlot on. *)
(* Returns whether a unit moved, both inventories afterwards, and the slot   *)
(* changes of the hopper's inventory that the callback reports.              *)

\* the single unit offered to the destination or to the hopper's own inventory
OneUnit(sourceStack) == Grow(sourceStack, -Count(sourceStack) + 1)

\* faulty variant: the whole source stack is taken away
Remaining_Emptied(sourceStack) == Grow(sourceStack, -Count(sourceStack))

\* what is written back to the slot the unit came from
Remaining(sourceStack) == Grow(sourceStack, -1)

\* faulty variant: the stack in the target slot is not compared
Refused_AllowedOnly(allowed, sourceStack, it) == ~allowed

\* the source slot is passed over: the HopperInsertable does not allow the
\* stack, or its target slot holds a stack the source is not comparable with
Refused(allowed, sourceStack, it) == ~allowed \/ ~Comparable(sourceStack, it)

RECURSIVE insertFrom(_, _, _, _)
insertFrom(hinv, dest, facing, sourceSlot) ==
    IF sourceSlot >= HopperSlots
    THEN [ok |-> FALSE, hinv |-> hinv, dinv |-> dest.inv, changes |-> <<>>]
    ELSE
      LET sourceStack == Slots(hinv)[sourceSlot]
          stack == OneUnit(sourceStack)
          next == insertFrom(hinv, dest, facing, sourceSlot + 1)
          src == SetItem(hinv, sourceSlot, Remaining(sourceStack))
          taken(dinv) == [ok |-> TRUE, hinv |-> src.inv, dinv |-> dinv,
                          changes |-> <<[slot |-> src.slot, item |-> src.item]>>]
      IN  IF Empty(sourceStack) THEN next
          ELSE IF dest.kind # "special"
          THEN LET a == AddItem(dest.inv, stack)
               IN  IF ~a.ok THEN next ELSE taken(a.inv)
          ELSE LET r == InsertItem(dest, stack, facing)
                   it == Item(dest.inv, r.slot)
                   put == IF ~Empty(it) THEN Grow(it, 1) ELSE stack
               IN  IF Refused(r.allowed, sourceStack, it) THEN next
                   ELSE taken(SetItem(dest.inv, r.slot, put).inv)

insertItem(hinv, dest, facing) ==
    IF ~IsContainer(dest)
    THEN [ok |-> FALSE, hinv |-> hinv, dinv |-> dest.inv, changes |-> <<>>]
    ELSE insertFrom(hinv, dest, facing, 0)

\* faulty variant: the scan keeps the last non-empty slot (no break)
firstStack_Last(inv, slot) ==
    LET S == {i \in DOMAIN inv : i >= slot /\ ~Empty(inv[i])}
    IN  IF S = {} THEN [stack |-> EmptyStack, slot |-> 0]
        ELSE LET k == CHOOSE x \in S : \A y \in S : y <= x
             IN  [stack |-> inv[k], slot |-> k]

\* the scan of extractItem over a plain container: the first non-empty slot,
\* or the zero values of targetSlot and targetStack
RECURSIVE firstStack(_, _)
firstStack(inv, slot) ==
    IF slot \notin DOMAIN inv THEN [stack |-> EmptyStack, slot |-> 0]
    ELSE IF Empty(Slots(inv)[slot]) THEN firstStack(inv, slot + 1)
    ELSE [stack |-> Slots(inv)[slot], slot |-> slot]

\* faulty variant: the outcome of the hopper's AddItem is not looked at
extractItem_NoFullCheck(hinv, origin, es) ==
    LET target == IF origin.kind # "special" THEN firstStack(origin.inv, 0)
                  ELSE ExtractItem(origin, es)
        targetStack == target.stack
        a == AddItem(hinv, OneUnit(targetStack))
        fail == [ok |-> FALSE, hinv |-> hinv, oinv |-> origin.inv, changes |-> <<>>]
    IN  IF ~IsContainer(origin) THEN fail
        ELSE IF Empty(targetStack) THEN fail
        ELSE [ok |-> TRUE, hinv |-> a.inv,
              oinv |-> SetItem(origin.inv, target.slot, Remaining(targetStack)).inv,
              changes |-> <<>>]

(* Hopper.extractItem *)
extractItem(hinv, origin, es) ==
    LET target == IF origin.kind # "special" THEN firstStack(origin.inv, 0)
                  ELSE ExtractItem(origin, es)
        targetStack == target.stack
        a == AddItem(hinv, OneUnit(targetStack))
        fail == [ok |-> FALSE, hinv |-> hinv, oinv |-> origin.inv, changes |-> <<>>]
    IN  IF ~IsContainer(origin) THEN fail
        ELSE IF Empty(targetStack) THEN fail
        ELSE IF ~a.ok THEN fail
        ELSE [ok |-> TRUE, hinv |-> a.inv,
              oinv |-> SetItem(origin.inv, target.slot, Remaining(targetStack)).inv,
              changes |-> <<[slot |-> a.slot, item |-> a.item]>>]

----------------------------------------------------------------------------
(* NewHopper and the callback of its inventory *)

\* the Hopper value NewHopper returns, owning inventory (and viewer map) id
NewHopper(id) ==
    [Facing |-> FaceDown, Powered |-> FALSE, CustomName |-> "", LastTick |-> 0,
     TransferCooldown |-> 0, CollectCooldown |-> 0, inventory |-> id]

\* the callback given to inventory.New: every viewer in the map is told the slot
\* and its new content (run for each change, in the order of the changes)
RECURSIVE FanOut(_, _)
FanOut(changes, vs) ==
    IF changes = <<>> THEN <<>>
    ELSE <<[slot |-> Head(changes).slot, item |-> Head(changes).item, to |-> vs]>>
         \o FanOut(Tail(changes), vs)

----------------------------------------------------------------------------
(* Hopper.Tick *)

\* faulty variant: a counter at 0 no longer holds the tick back
CoolingDown_Strict(h) == h.TransferCooldown > 0 \/ h.CollectCooldown > 0

\* the guard of the early return: a counter is still running
CoolingDown(h) == h.TransferCooldown >= 0 \/ h.CollectCooldown >= 0

\* faulty variant: only TransferCooldown is set to 0
Clamped_TransferOnly(h) == [h EXCEPT !.TransferCooldown = 0]

\* both counters are set to 0 once neither is running
Clamped(h) == [h EXCEPT !.TransferCooldown = 0, !.CollectCooldown = 0]

\* faulty variant: the powered flag is not looked at
Suspended_Never(h) == FALSE

\* a powered hopper is stored and does nothing else
Suspended(h) == h.Powered

\* faulty variant: extractItem runs before insertItem
Attempt_ExtractFirst(h, hinv, w, es) ==
    LET ext == extractItem(hinv, w[Side(FaceUp)], es)
        w1 == IF ext.ok THEN [w EXCEPT ![Side(FaceUp)].inv = ext.oinv] ELSE w
        ins == insertItem(ext.hinv, w1[Side(h.Facing)], h.Facing)
        w2 == IF ins.ok THEN [w1 EXCEPT ![Side(h.Facing)].inv = ins.dinv] ELSE w1
    IN  [inserted |-> ins.ok, extracted |-> ext.ok, hinv |-> ins.hinv, w |-> w2,
         changes |-> ext.changes \o ins.changes]

\* the order of the two attempts: insertItem, then extractItem on what it left
Attempt(h, hinv, w, es) ==
    LET ins == insertItem(hinv, w[Side(h.Facing)], h.Facing)
        w1 == IF ins.ok
              THEN [w EXCEPT ![Side(h.Facing)].inv = ins.dinv]
              ELSE w
        ext == extractItem(ins.hinv, w1[Side(FaceUp)], es)
        w2 == IF ext.ok THEN [w1 EXCEPT ![Side(FaceUp)].inv = ext.oinv] ELSE w1
    IN  [inserted |-> ins.ok, extracted |-> ext.ok, hinv |-> ext.hinv, w |-> w2,
         changes |-> ins.changes \o ext.changes]

\* faulty variant: the cooldown is not set
AfterTransfer_Skip(h) == h

\* faulty variant: both counters are set to the cooldown
AfterTransfer_Both(h) ==
    [h EXCEPT !.TransferCooldown = TransferTicks, !.CollectCooldown = TransferTicks]

\* faulty variant: the cooldown set is one tick short
AfterTransfer_Short(h) == [h EXCEPT !.TransferCooldown = TransferTicks - 1]

\* the cooldown set after a successful transfer
AfterTransfer(h) == [h EXCEPT !.TransferCooldown = TransferTicks]

\* faulty variant: the block is stored, with the cooldown, after every attempt
StoresAfterAttempt_Always(inserted, extracted) == TRUE

\* whether the tick that found no running counter and no power stores the block
StoresAfterAttempt(inserted, extracted) == inserted \/ extracted

Tick ==
    LET currentTick == now + 1
        id == blk.inventory
        h1 == [blk EXCEPT !.TransferCooldown = @ - 1,
                          !.CollectCooldown = @ - 1,
                          !.LastTick = currentTick]
        h2 == Clamped(h1)
        r == [op |-> "tick", tc |-> h1.TransferCooldown,
              cc |-> h1.CollectCooldown, powered |-> blk.Powered,
              attempted |-> FALSE, inserted |-> FALSE, extracted |-> FALSE,
              published |-> TRUE]
    IN  /\ now < MaxTick
        /\ now' = currentTick
        /\ IF CoolingDown(h1)
           THEN /\ blk' = h1
                /\ res' = r
                /\ UNCHANGED <<invs, world>>
                /\ notes' = <<>>
           ELSE IF Suspended(h2)
           THEN /\ blk' = h2
                /\ res' = r
                /\ UNCHANGED <<invs, world>>
                /\ notes' = <<>>
           ELSE \E es \in Nominations(world[Side(FaceUp)]) :
                  LET at == Attempt(h2, invs[id], world, es)
                      stored == StoresAfterAttempt(at.inserted, at.extracted)
                  IN  /\ blk' = IF stored THEN AfterTransfer(h2) ELSE blk
                      /\ res' = [r EXCEPT !.attempted = TRUE,
                                          !.inserted = at.inserted,
                                          !.extracted = at.extracted,
                                          !.published = stored]
                      /\ invs' = [invs EXCEPT ![id] = at.hinv]
                      /\ world' = at.w
                      /\ notes' = FanOut(at.changes, viewers[id])
        /\ UNCHANGED <<viewers, reg, mu, pc, arg, seen, atStart, must, mustNot, loc>>

\* the Powered field changes between ticks (the block is stored again with the
\* toggle_bit of its state flipped)
SetPowered ==
    /\ now < MaxTick
    /\ blk' = [blk EXCEPT !.Powered = ~@]
    /\ UNCHANGED <<invs, viewers, world, now, res, notes, reg, mu, pc, arg, seen,
                   atStart, must, mustNot, loc>>

----------------------------------------------------------------------------
(* The value of res before any tick *)
NoRes == [op |-> "init", tc |-> 0, cc |-> 0, powered |-> FALSE,
          attempted |-> FALSE, inserted |-> FALSE, extracted |-> FALSE,
          published |-> FALSE]

(* The viewer registry.  Here each call runs as one step (it holds viewerMu  *)
(* throughout); the steps inside the calls are modelled further below.        *)

Called(op) == [NoRes EXCEPT !.op = op]

\* Hopper.AddViewer on the block stored in the world
AddViewer(v) ==
    /\ viewers' = [viewers EXCEPT ![blk.inventory] = @ \cup {v}]
    /\ reg' = reg \cup {v}
    /\ res' = Called("add")
    /\ notes' = <<>>
    /\ UNCHANGED <<blk, invs, world, now, mu, pc, arg, seen, atStart, must, mustNot, loc>>

\* Hopper.RemoveViewer on the block stored in the world
RemoveViewer(v) ==
    /\ viewers' = [viewers EXCEPT ![blk.inventory] = @ \ {v}]
    /\ reg' = reg \ {v}
    /\ res' = Called("remove")
    /\ notes' = <<>>
    /\ UNCHANGED <<blk, invs, world, now, mu, pc, arg, seen, atStart, must, mustNot, loc>>

----------------------------------------------------------------------------
(* Persistence.  A field set is a function from the names of the fields that *)
(* are present to their values; "Items" is a sequence of [Slot, item, Count]. *)

\* nbtconv.InvToNBT: one entry per non-empty slot, in slot order
RECURSIVE InvToNBTFrom(_, _)
InvToNBTFrom(inv, index) ==
    IF index \notin DOMAIN inv THEN <<>>
    ELSE (IF Empty(Slots(inv)[index]) THEN <<>>
          ELSE <<[Slot |-> index % 256, item |-> inv[index].item,
                  Count |-> inv[index].count]>>)
         \o InvToNBTFrom(inv, index + 1)

InvToNBT(inv) == InvToNBTFrom(inv, 0)

\* nbtconv.InvFromNBT: every entry that holds an item is written to its slot
RECURSIVE InvFromNBT(_, _)
InvFromNBT(inv, items) ==
    IF items = <<>> THEN inv
    ELSE LET it == NewStack(Head(items).item, Head(items).Count)
         IN  InvFromNBT(IF Empty(it) THEN inv
                        ELSE SetItem(inv, Head(items).Slot, it).inv,
                        Tail(items))

\* the conversion int32(x) of a signed 64 bit value: a value outside the 32 bit
\* range wraps around (one wrap is written out: the counters never leave the
\* range by more than a tick)
MaxInt32 == 2147483647
MinInt32 == -MaxInt32 - 1
Int32(x) ==
    IF x > MaxInt32 THEN MinInt32 + (x - MaxInt32 - 1)
    ELSE IF x < MinInt32 THEN MaxInt32 - (MinInt32 - x - 1)
    ELSE x

\* nbtconv.String, nbtconv.Int32, nbtconv.Slice: the zero value for a missing field
FieldOr(data, name, zero) == IF name \in DOMAIN data THEN data[name] ELSE zero

\* faulty variant: the label is emitted even when it is empty
EncodeNBT_AlwaysName(h, inv) ==
    [n \in {"Items", "TransferCooldown", "id", "CustomName"} |->
        CASE n = "Items" -> InvToNBT(inv)
          [] n = "TransferCooldown" -> Int32(h.TransferCooldown)
          [] n = "id" -> "Hopper"
          [] n = "CustomName" -> h.CustomName]

\* Hopper.EncodeNBT of a hopper whose inventory holds inv
EncodeNBT(h, inv) ==
    LET m == [n \in {"Items", "TransferCooldown", "id"} |->
                 CASE n = "Items" -> InvToNBT(inv)
                   [] n = "TransferCooldown" -> Int32(h.TransferCooldown)
                   [] n = "id" -> "Hopper"]
    IN  IF h.CustomName # "" THEN ("CustomName" :> h.CustomName) @@ m ELSE m

\* faulty variant: facing and powered are those of the new hopper
Decoded_Fresh(h, data, id) ==
    [NewHopper(id) EXCEPT !.CustomName = FieldOr(data, "CustomName", ""),
                          !.TransferCooldown = FieldOr(data, "TransferCooldown", 0)]

\* the Hopper value Hopper.DecodeNBT returns, owning the new inventory id
Decoded(h, data, id) ==
    [NewHopper(id) EXCEPT !.Facing = h.Facing,
                          !.Powered = h.Powered,
                          !.CustomName = FieldOr(data, "CustomName", ""),
                          !.TransferCooldown = FieldOr(data, "TransferCooldown", 0)]

\* the field sets handed to DecodeNBT: what the stored block encodes to, the
\* same without its optional fields, and a field set with one stack and a label
DecodeInputs ==
    LET own == EncodeNBT(blk, invs[blk.inventory])
    IN  { own,
          [n \in {"Items", "id"} |-> own[n]],
          [n \in {"Items", "TransferCooldown", "CustomName"} |->
              CASE n = "Items" -> <<[Slot |-> 2, item |-> "b", Count |-> 1]>>
                [] n = "TransferCooldown" -> -3
                [] n = "CustomName" -> "n"] }

\* Hopper.DecodeNBT on the block stored in the world; the result is stored in
\* its place
DecodeNBT ==
    /\ Cardinality(DOMAIN invs) <= MaxDecodes
    /\ \E data \in DecodeInputs :
         LET id == Cardinality(DOMAIN invs)
         IN  /\ blk' = Decoded(blk, data, id)
             /\ invs' = (id :> InvFromNBT(EmptyInv(HopperSlots),
                                          FieldOr(data, "Items", <<>>))) @@ invs
             /\ viewers' = (id :> {}) @@ viewers
    /\ res' = Called("decode")
    /\ notes' = <<>>
    /\ UNCHANGED <<world, now, reg, mu, pc, arg, seen, atStart, must, mustNot, loc>>

----------------------------------------------------------------------------
(* The states the exploration starts from *)

\* an inventory of n slots with stack s in slot k and nothing else
Only(n, k, s) == [i \in 0..(n - 1) |-> IF i = k THEN s ELSE EmptyStack]

\* an inventory of n slots, every slot holding s
Filled(n, s) == [i \in 0..(n - 1) |-> s]

HopperContents ==
    { EmptyInv(HopperSlots),
      [Only(HopperSlots, 1, NewStack("a", MaxCount)) EXCEPT ![3] = NewStack("b", 1)],
      Filled(HopperSlots, NewStack("a", MaxCount)) }

ContainerContents ==
    { EmptyInv(ContainerSlots),
      Only(ContainerSlots, ContainerSlots - 1, NewStack("a", MaxCount)),
      [Filled(ContainerSlots, NewStack("a", MaxCount)) EXCEPT ![0] = NewStack("b", 1)] }

Containers ==
    {NoContainer, [kind |-> "inert", inv |-> EmptyInv(0), pol |-> Refuse]}
    \cup [kind : {"generic"}, inv : ContainerContents, pol : {Refuse}]
    \cup [kind : {"special"}, inv : ContainerContents, pol : Policies]

IdleThreads(v) == [t \in Threads |-> v]

\* the locals of a thread that runs no transfer: sourceSlot, targetSlot and the
\* stack read from the other inventory (targetStack, it)
NoLocals == [sourceSlot |-> 0, targetSlot |-> 0, stack |-> EmptyStack]

InitRest ==
    /\ now = 0
    /\ res = NoRes
    /\ notes = <<>>
    /\ reg = {}
    /\ mu = [w |-> FALSE, r |-> {}]
    /\ pc = IdleThreads("idle")
    /\ arg = IdleThreads("v1")
    /\ seen = IdleThreads({})
    /\ atStart = IdleThreads({})
    /\ must = IdleThreads({})
    /\ mustNot = IdleThreads({})
    /\ loc = IdleThreads(NoLocals)

Init ==
    /\ \E f \in {FaceDown, FaceUp} : blk = [NewHopper(0) EXCEPT !.Facing = f]
    /\ \E c \in HopperContents : invs = (0 :> c)
    /\ viewers = (0 :> {})
    /\ \E u \in Containers, d \in Containers :
         /\ blk.Facing = FaceUp => d = NoContainer
         /\ blk.Facing # FaceUp => u.pol = Refuse
         /\ world = [up |-> u, facing |-> d]
    /\ InitRest

Next == Tick \/ SetPowered

Spec == Init /\ [][Next]_vars

\* a hopper with viewers coming and going and with DecodeNBT calls: one that
\* faces a plain container and has a plain container above it
InitView ==
    /\ blk = NewHopper(0)
    /\ invs = (0 :> [Only(HopperSlots, 1, NewStack("a", MaxCount))
                        EXCEPT ![3] = NewStack("b", 1)])
    /\ viewers = (0 :> {})
    /\ \E u \in {NoContainer,
                  [kind |-> "generic", pol |-> Refuse,
                   inv |-> Only(ContainerSlots, ContainerSlots - 1, NewStack("a", MaxCount))]} :
         world = [up |-> u,
                  facing |-> [kind |-> "generic", pol |-> Refuse,
                              inv |-> EmptyInv(ContainerSlots)]]
    /\ InitRest

NextView ==
    \/ Tick
    \/ \E v \in Viewers : AddViewer(v)
    \/ \E v \in Viewers : RemoveViewer(v)
    \/ DecodeNBT

SpecView == InitView /\ [][NextView]_vars

----------------------------------------------------------------------------
(* The steps inside AddViewer, RemoveViewer and the inventory's callback,    *)
(* run by several threads on the one viewer map and RWMutex of a hopper.     *)
(* pc: "idle"; "addLock", "addWrite", "addUnlock"; "rmLock", "rmWrite",      *)
(* "rmUnlock"; "rlock", "range", "done".                                     *)

\* faulty variant: the callback does not keep writers out (it takes no read lock that
\* a writer has to wait for)
CanLock_IgnoresReaders(m) == ~m.w

\* sync.RWMutex.Lock: no writer and no reader holds the mutex
CanLock(m) == ~m.w /\ m.r = {}

\* sync.RWMutex.RLock: no writer holds the mutex
CanRLock(m) == ~m.w

\* the viewers nobody is adding or removing right now
Settled == {v \in Viewers : \A t \in Threads : pc[t] \in {"idle", "rlock", "range", "done"} \/ arg[t] # v}

concRest == <<blk, invs, world, now, res, notes, loc>>

\* a thread calls AddViewer(v) or RemoveViewer(v)
Call(t, v, first) ==
    /\ pc[t] = "idle"
    /\ pc' = [pc EXCEPT ![t] = first]
    /\ arg' = [arg EXCEPT ![t] = v]
    /\ must' = [u \in Threads |-> must[u] \ {v}]
    /\ mustNot' = [u \in Threads |-> mustNot[u] \ {v}]
    /\ UNCHANGED <<viewers, reg, mu, seen, atStart>>
    /\ UNCHANGED concRest

CallAddViewer(t, v) == Call(t, v, "addLock")

CallRemoveViewer(t, v) == Call(t, v, "rmLock")

\* h.viewerMu.Lock()
Lock(t) ==
    /\ pc[t] \in {"addLock", "rmLock"}
    /\ CanLock(mu)
    /\ mu' = [mu EXCEPT !.w = TRUE]
    /\ pc' = [pc EXCEPT ![t] = IF pc[t] = "addLock" THEN "addWrite" ELSE "rmWrite"]
    /\ UNCHANGED <<viewers, reg, arg, seen, atStart, must, mustNot, loc>>
    /\ UNCHANGED concRest

\* h.viewers[v] = struct{}{}
InsertViewer(t) ==
    /\ pc[t] = "addWrite"
    /\ viewers' = [viewers EXCEPT ![blk.inventory] = @ \cup {arg[t]}]
    /\ pc' = [pc EXCEPT ![t] = "addUnlock"]
    /\ UNCHANGED <<reg, mu, arg, seen, atStart, must, mustNot, loc>>
    /\ UNCHANGED concRest

\* delete(h.viewers, v)
DeleteViewer(t) ==
    /\ pc[t] = "rmWrite"
    /\ viewers' = [viewers EXCEPT ![blk.inventory] = @ \ {arg[t]}]
    /\ pc' = [pc EXCEPT ![t] = "rmUnlock"]
    /\ UNCHANGED <<reg, mu, arg, seen, atStart, must, mustNot, loc>>
    /\ UNCHANGED concRest

\* the deferred h.viewerMu.Unlock(); the call returns
Unlock(t) ==
    /\ pc[t] \in {"addUnlock", "rmUnlock"}
    /\ mu' = [mu EXCEPT !.w = FALSE]
    /\ reg' = IF pc[t] = "addUnlock" THEN reg \cup {arg[t]} ELSE reg \ {arg[t]}
    /\ pc' = [pc EXCEPT ![t] = "idle"]
    /\ UNCHANGED <<viewers, arg, seen, atStart, must, mustNot, loc>>
    /\ UNCHANGED concRest

\* a slot of the inventory changes on thread t, which then runs the callback
SlotChange(t) ==
    /\ pc[t] = "idle"
    /\ pc' = [pc EXCEPT ![t] = "rlock"]
    /\ must' = [must EXCEPT ![t] = viewers[blk.inventory] \cap Settled]
    /\ mustNot' = [mustNot EXCEPT ![t] = (Viewers \ viewers[blk.inventory]) \cap Settled]
    /\ seen' = [seen EXCEPT ![t] = {}]
    /\ UNCHANGED <<viewers, reg, mu, arg, atStart>>
    /\ UNCHANGED concRest

\* m.RLock()
RLock(t) ==
    /\ pc[t] = "rlock"
    /\ CanRLock(mu)
    /\ mu' = [mu EXCEPT !.r = @ \cup {t}]
    /\ atStart' = [atStart EXCEPT ![t] = viewers[blk.inventory]]
    /\ pc' = [pc EXCEPT ![t] = "range"]
    /\ UNCHANGED <<viewers, reg, arg, seen, must, mustNot, loc>>
    /\ UNCHANGED concRest

\* one round of "for viewer := range v": a viewer in the map that has not been
\* visited is told of the change
ViewSlotChange(t, v) ==
    /\ pc[t] = "range"
    /\ v \in viewers[blk.inventory] \ seen[t]
    /\ seen' = [seen EXCEPT ![t] = @ \cup {v}]
    /\ UNCHANGED <<viewers, reg, mu, pc, arg, atStart, must, mustNot, loc>>
    /\ UNCHANGED concRest

\* the range is over; the deferred m.RUnlock()
RUnlock(t) ==
    /\ pc[t] = "range"
    /\ viewers[blk.inventory] \ seen[t] = {}
    /\ mu' = [mu EXCEPT !.r = @ \ {t}]
    /\ pc' = [pc EXCEPT ![t] = "done"]
    /\ UNCHANGED <<viewers, reg, arg, seen, atStart, must, mustNot, loc>>
    /\ UNCHANGED concRest

\* the callback returns
Return(t) ==
    /\ pc[t] = "done"
    /\ pc' = [pc EXCEPT ![t] = "idle"]
    /\ seen' = [seen EXCEPT ![t] = {}]
    /\ atStart' = [atStart EXCEPT ![t] = {}]
    /\ must' = [must EXCEPT ![t] = {}]
    /\ mustNot' = [mustNot EXCEPT ![t] = {}]
    /\ UNCHANGED <<viewers, reg, mu, arg>>
    /\ UNCHANGED concRest

InitConc ==
    /\ blk = NewHopper(0)
    /\ invs = (0 :> EmptyInv(HopperSlots))
    /\ viewers = (0 :> {})
    /\ world = [up |-> NoContainer, facing |-> NoContainer]
    /\ InitRest

NextConc ==
    \E t \in Threads :
        \/ \E v \in Viewers : CallAddViewer(t, v)
        \/ \E v \in Viewers : CallRemoveViewer(t, v)
        \/ Lock(t)
        \/ InsertViewer(t)
        \/ DeleteViewer(t)
        \/ Unlock(t)
        \/ SlotChange(t)
        \/ RLock(t)
        \/ \E v \in Viewers : ViewSlotChange(t, v)
        \/ RUnlock(t)
        \/ Return(t)

SpecConc == InitConc /\ [][NextConc]_vars

----------------------------------------------------------------------------
(* Vocabulary of the properties *)

\* the step is a Tick
TickStep == now' = now + 1

\* the hopper's own inventory
Own == invs[blk.inventory]

\* the counters of the stored block as Tick finds them after its decrement
DecTransfer == blk.TransferCooldown - 1
DecCollect == blk.CollectCooldown - 1

\* neither counter is running after the decrement: the tick is due
Due == DecTransfer < 0 /\ DecCollect < 0

\* the last operation was a tick in which a transfer succeeded
Transferred == res.op = "tick" /\ (res.inserted \/ res.extracted)

\* the block in the direction the hopper faces
Dest == world[Side(blk.Facing)]

\* the first non-empty slot of the hopper's inventory, -1 when there is none
FirstFull ==
    LET S == {i \in DOMAIN Own : Own[i].count > 0 /\ Own[i].item # NoItem}
    IN  IF S = {} THEN -1 ELSE MinOf(S)

\* a slot of inventory inv can take one more unit of item it
RoomAt(inv, k, it) ==
    \/ inv[k].count = 0
    \/ inv[k].item = NoItem
    \/ inv[k].item = it /\ inv[k].count < MaxCount

\* the destination takes one unit of item it: a plain container with room for it
\* anywhere, or a HopperInsertable that allows it into a slot with room for it
Accepts(c, it) ==
    \/ c.kind = "generic" /\ \E k \in DOMAIN c.inv : RoomAt(c.inv, k, it)
    \/ c.kind = "special" /\ c.pol[it].allowed /\ RoomAt(c.inv, c.pol[it].slot, it)

\* the units of item it in the hopper and in both blocks next to it
Total(it) == Units(Own, it) + Units(world["up"].inv, it) + Units(world["facing"].inv, it)

----------------------------------------------------------------------------
(* C1: while the hopper is powered, a tick attempts neither insertItem nor   *)
(* extractItem, whatever the counters are: the hopper's inventory and the    *)
(* inventories of the block above and of the block it faces stay as they     *)
(* were, and no viewer is told of a change.                                  *)
C1_PoweredNoTransfer ==
    [][TickStep /\ blk.Powered =>
          /\ ~res'.attempted
          /\ invs' = invs
          /\ world' = world
          /\ notes' = <<>>]_vars

\* a powered tick that was due, with a unit the destination would have taken
C1_Witness ==
    /\ res.op = "tick" /\ res.powered /\ blk.Powered
    /\ res.tc < 0 /\ res.cc < 0
    /\ FirstFull >= 0
    /\ Accepts(Dest, Own[FirstFull].item)

(* C3: a tick attempts a transfer only when both counters are <= 0 after the *)
(* decrement; when either counter is still >= 0 after it, nothing is         *)
(* attempted, no inventory changes, and the block is stored with the         *)
(* decremented counters and the new LastTick.                                *)
C3_CooldownGate ==
    [][TickStep =>
          /\ res'.attempted => DecTransfer <= 0 /\ DecCollect <= 0
          /\ (DecTransfer >= 0 \/ DecCollect >= 0) =>
                /\ ~res'.attempted
                /\ invs' = invs
                /\ world' = world
                /\ res'.published
                /\ blk' = [blk EXCEPT !.TransferCooldown = DecTransfer,
                                      !.CollectCooldown = DecCollect,
                                      !.LastTick = now']]_vars

\* an unpowered tick held back by a counter that reached exactly 0, with a unit
\* the destination would have taken
C3_Witness ==
    /\ res.op = "tick" /\ ~res.powered /\ ~blk.Powered
    /\ res.tc = 0 /\ res.cc < 0
    /\ blk.TransferCooldown = 0 /\ blk.LastTick = now
    /\ FirstFull >= 0
    /\ Accepts(Dest, Own[FirstFull].item)

(* C4 as stated: after a tick in which insertItem or extractItem succeeded   *)
(* the stored block has TransferCooldown = 8 and CollectCooldown = 8.        *)
C4_BothCountersReset ==
    Transferred => blk.TransferCooldown = 8 /\ blk.CollectCooldown = 8

(* C4 amended: after a tick in which insertItem or extractItem succeeded the *)
(* block is stored with TransferCooldown = 8 and CollectCooldown = 0.        *)
C4_TransferCooldownReset ==
    Transferred => res.published /\ blk.TransferCooldown = 8 /\ blk.CollectCooldown = 0

\* a tick in which both an insert and an extract succeeded
C4_Witness == res.op = "tick" /\ res.inserted /\ res.extracted

(* C5 as stated: from one tick to the next neither counter of the stored     *)
(* block increases, except on a tick in which a transfer succeeded.          *)
C5_NeverIncreasing ==
    [][TickStep =>
          \/ res'.inserted \/ res'.extracted
          \/ /\ blk'.TransferCooldown <= blk.TransferCooldown
             /\ blk'.CollectCooldown <= blk.CollectCooldown]_vars

(* C5 amended: across a tick TransferCooldown of the stored block increases  *)
(* only to 8 by a successful transfer or to 0 by the clamp of a due tick,    *)
(* and CollectCooldown increases only to 0 by the clamp of a due tick.       *)
C5_IncreaseOnlyByTransferOrClamp ==
    [][TickStep =>
          /\ blk'.TransferCooldown > blk.TransferCooldown =>
                \/ Transferred' /\ blk'.TransferCooldown = 8
                \/ Due /\ blk'.TransferCooldown = 0
          /\ blk'.CollectCooldown > blk.CollectCooldown =>
                Due /\ blk'.CollectCooldown = 0]_vars

\* a powered, due tick that moved nothing and raised CollectCooldown to 0
C5_Witness ==
    /\ res.op = "tick" /\ res.powered /\ res.published
    /\ res.tc < 0 /\ res.cc < -1
    /\ ~res.inserted /\ ~res.extracted
    /\ blk.CollectCooldown = 0

(* C6: every tick, also one whose transfer attempt fails, stores the block   *)
(* again with LastTick set to the tick and the counters advanced.            *)
C6_EveryTickPublishes ==
    [][TickStep => res'.published /\ blk'.LastTick = now']_vars

(* C2: across a tick no unit is lost or duplicated: for each item the units  *)
(* in the hopper and in the blocks next to it add up to the same number, at  *)
(* most one unit leaves the hopper and at most one enters it.                *)
C2_Conservation ==
    [][TickStep =>
          /\ \A it \in Items : Total(it)' = Total(it)
          /\ Len(notes') <= 2]_vars

(* C10: when the hopper is unpowered and due and the block it faces takes   *)
(* one unit of the hopper's first non-empty slot, the tick takes exactly one *)
(* unit from that slot and touches no other slot of the hopper, the          *)
(* destination holds one unit more of that item, and the block is stored     *)
(* with TransferCooldown = 8.                                                *)
C10_InsertMovesOneUnit ==
    [][/\ TickStep /\ ~blk.Powered /\ Due
       /\ FirstFull >= 0
       /\ Accepts(Dest, Own[FirstFull].item)
       =>
       LET s == FirstFull
           x == Own[s].item
           d == Side(blk.Facing)
       IN  /\ res'.inserted
           /\ Len(notes') = IF res'.extracted THEN 2 ELSE 1
           /\ notes'[1].slot = s
           /\ notes'[1].item = [item |-> x, count |-> Own[s].count - 1]
           /\ ~res'.extracted => Own' = [Own EXCEPT ![s].count = @ - 1]
           /\ (d # "up" \/ ~res'.extracted) =>
                 \A it \in Items :
                    Units(world'[d].inv, it) =
                       Units(world[d].inv, it) + (IF it = x THEN 1 ELSE 0)
           /\ res'.published
           /\ blk'.TransferCooldown = 8
           /\ blk'.LastTick = now']_vars

\* a tick that took one unit from slot 1, the first non-empty one, of a full
\* stack and gave it to a HopperInsertable
C10_Witness ==
    /\ res.op = "tick" /\ res.inserted /\ ~res.extracted
    /\ Dest.kind = "special"
    /\ Len(notes) = 1
    /\ notes[1].slot = 1
    /\ notes[1].item.count = MaxCount - 1
    /\ Own[1].count = MaxCount - 1
    /\ blk.TransferCooldown = 8

(* C7: over any sequence of Tick, AddViewer, RemoveViewer and DecodeNBT the  *)
(* block keeps the inventory and the viewer set it started with: a viewer    *)
(* that was added and not removed is in the viewer set of the block's        *)
(* current inventory and is told of every slot change a tick makes.          *)
C7_InventoryAndViewersKept ==
    /\ reg \subseteq viewers[blk.inventory]
    /\ \A i \in 1..Len(notes) : reg \subseteq notes[i].to

(* C9: the viewers in the registry of the hopper's inventory are told of     *)
(* each slot change within the tick that makes it and in the order of the    *)
(* changes, with the content the slot has right after the change; when both  *)
(* insert and extract succeed, the unit taken from the source slot is        *)
(* reported before the unit the extract added.                               *)
C9_NotifiedInOrder ==
    [][TickStep =>
          /\ \A i \in 1..Len(notes') : notes'[i].to = viewers[blk.inventory]
          /\ Len(notes') = (IF res'.inserted THEN 1 ELSE 0)
                           + (IF res'.extracted THEN 1 ELSE 0)
          /\ res'.inserted =>
                LET n == notes'[1]
                IN  /\ n.item = [Own[n.slot] EXCEPT !.count = @ - 1]
                    /\ Own[n.slot].count > 0
                    /\ ~res'.extracted => Own' = [Own EXCEPT ![n.slot] = n.item]
          /\ res'.extracted =>
                LET mid == IF res'.inserted
                           THEN [Own EXCEPT ![notes'[1].slot] = notes'[1].item]
                           ELSE Own
                    n == notes'[Len(notes')]
                IN  /\ n.item.count =
                          1 + (IF mid[n.slot].item = n.item.item
                               THEN mid[n.slot].count ELSE 0)
                    /\ Own' = [mid EXCEPT ![n.slot] = n.item]]_vars

\* a tick seen by two viewers in which the insert took a unit from slot 1 and
\* the extract put a unit back into the same slot
C9_Witness ==
    /\ res.op = "tick" /\ res.inserted /\ res.extracted
    /\ Len(notes) = 2
    /\ notes[1].to = Viewers
    /\ notes[1].slot = 1 /\ notes[2].slot = 1
    /\ notes[1].item.count = MaxCount - 1
    /\ notes[2].item.count = MaxCount

(* C8: the viewer map changes only while the writer holds the mutex alone   *)
(* and is ranged over only under a read lock, so under every interleaving a  *)
(* fan-out tells exactly the viewers that were in the map when it began:     *)
(* a viewer whose RemoveViewer returned before the slot change is not told   *)
(* of it, and one whose AddViewer returned before it is told of it (unless   *)
(* a later call for that viewer runs meanwhile).                             *)
C8_FanOutSeesRegistered ==
    \A t \in Threads :
        /\ pc[t] \in {"addWrite", "addUnlock", "rmWrite", "rmUnlock"} =>
              mu.w /\ mu.r = {}
        /\ pc[t] = "range" =>
              /\ t \in mu.r /\ ~mu.w
              /\ viewers[blk.inventory] = atStart[t]
              /\ seen[t] \subseteq atStart[t]
        /\ pc[t] = "done" =>
              /\ seen[t] = atStart[t]
              /\ must[t] \subseteq seen[t]
              /\ mustNot[t] \cap seen[t] = {}

\* a fan-out that ended having told the one viewer added before the change,
\* while a second thread waits to add the other viewer and a third is ranging
C8_Witness ==
    \E t \in Threads :
        /\ pc[t] = "done"
        /\ must[t] = {"v1"} /\ seen[t] = {"v1"}
        /\ \E u \in Threads : pc[u] = "addLock" /\ arg[u] = "v2"
        /\ \E u \in Threads : pc[u] = "range"

\* a fan-out that ended without telling the viewer removed before the change
C8_WitnessRemoved ==
    \E t \in Threads :
        /\ pc[t] = "done"
        /\ mustNot[t] = {"v2"} /\ seen[t] = {"v1"}
        /\ reg = {"v1"}

----------------------------------------------------------------------------
(* Vocabulary of the extract properties *)

\* the block above the hopper
Origin == world[Side(FaceUp)]

\* the first non-empty slot of the inventory above, -1 when there is none
FirstAbove ==
    LET S == {i \in DOMAIN Origin.inv :
                 Origin.inv[i].count > 0 /\ Origin.inv[i].item # NoItem}
    IN  IF S = {} THEN -1 ELSE MinOf(S)

\* the hopper's inventory between the two attempts of the tick being taken:
\* as it was, or with the source slot as the insert's report left it
AfterInsert ==
    IF res'.inserted THEN [Own EXCEPT ![notes'[1].slot] = notes'[1].item] ELSE Own

\* an inventory has room for one unit of item it
HasRoom(inv, it) == \E k \in DOMAIN inv : RoomAt(inv, k, it)

(* C11: when the hopper is unpowered and due and the container above is a    *)
(* plain one, extractItem takes the first non-empty slot of that container   *)
(* in index order; if the hopper's inventory can take one unit of it, that   *)
(* slot loses exactly one unit and no other slot above changes, the hopper   *)
(* gains exactly one unit of that item, and the block is stored with         *)
(* TransferCooldown = 8.  (With the hopper facing up the insert writes to    *)
(* the same container first; the statement then covers the ticks whose       *)
(* insert moved nothing.)                                                    *)
C11_ExtractFirstNonEmpty ==
    [][/\ TickStep /\ ~blk.Powered /\ Due
       /\ Origin.kind = "generic"
       /\ FirstAbove >= 0
       /\ blk.Facing # FaceUp \/ ~res'.inserted
       /\ HasRoom(AfterInsert, Origin.inv[FirstAbove].item)
       =>
       LET k == FirstAbove
           x == Origin.inv[k].item
       IN  /\ res'.extracted
           /\ world'["up"].inv = [Origin.inv EXCEPT ![k].count = @ - 1]
           /\ \A it \in Items :
                 Units(Own', it) = Units(AfterInsert, it) + (IF it = x THEN 1 ELSE 0)
           /\ notes'[Len(notes')].item.item = x
           /\ res'.published
           /\ blk'.TransferCooldown = 8
           /\ blk'.LastTick = now']_vars

\* an empty hopper took one unit from the last slot of the plain container
\* above it, the only non-empty one, which held a full stack
C11_Witness ==
    /\ res.op = "tick" /\ res.extracted /\ ~res.inserted
    /\ world["up"].kind = "generic"
    /\ world["up"].inv[0].count = 0
    /\ world["up"].inv[ContainerSlots - 1] = NewStack("a", MaxCount - 1)
    /\ Units(Own, "a") = 1 /\ Units(Own, "b") = 0
    /\ blk.TransferCooldown = 8

(* Vocabulary of the rejection properties *)

\* container c rejects one unit of the non-empty stack s: a plain container
\* has no room for it, a HopperInsertable does not allow it or names a slot
\* holding a different item
Rejects(c, s) ==
    \/ c.kind = "generic" /\ ~HasRoom(c.inv, s.item)
    \/ c.kind = "special" /\ ~c.pol[s.item].allowed
    \/ /\ c.kind = "special"
       /\ c.inv[c.pol[s.item].slot].count > 0
       /\ c.inv[c.pol[s.item].slot].item # s.item

\* the destination rejects the unit of every non-empty slot of the hopper
AllRejected ==
    /\ IsContainer(Dest)
    /\ \A k \in DOMAIN Own : Own[k].count > 0 => Rejects(Dest, Own[k])

(* C12: if the destination rejects the unit from every non-empty source slot *)
(* (a plain container reports no room, a HopperInsertable refuses, or its    *)
(* target slot holds a stack that is not comparable), insertItem goes        *)
(* through the slots, returns false and leaves the hopper's and the          *)
(* destination's inventory as they were: on a due, unpowered tick nothing is *)
(* inserted, no unit leaves the hopper, and whatever changes is the work of  *)
(* the extract of the same tick.                                             *)
C12_AllRejectedNoInsert ==
    [][/\ TickStep /\ ~blk.Powered /\ Due
       /\ AllRejected
       =>
       LET r == insertItem(Own, Dest, blk.Facing)
       IN  /\ ~r.ok /\ r.hinv = Own /\ r.dinv = Dest.inv /\ r.changes = <<>>
           /\ ~res'.inserted
           /\ blk.Facing # FaceUp => world'["facing"] = world["facing"]
           /\ \A it \in Items : Units(Own', it) >= Units(Own, it)
           /\ ~res'.extracted => /\ Own' = Own /\ world' = world
                                 /\ notes' = <<>>]_vars

\* a hopper holding both items faced a HopperInsertable that allows only "b",
\* into a slot holding a full stack of "a"; the tick attempted and moved nothing
C12_Witness ==
    /\ res.op = "tick" /\ res.attempted /\ ~res.inserted /\ ~res.extracted
    /\ Units(Own, "a") > 0 /\ Units(Own, "b") > 0
    /\ Dest.kind = "special"
    /\ ~Dest.pol["a"].allowed
    /\ Dest.pol["b"].allowed
    /\ Dest.inv[Dest.pol["b"].slot] = NewStack("a", MaxCount)
    /\ AllRejected

----------------------------------------------------------------------------
(* DecodeNBT and EncodeNBT as functions of the field set: a stored hopper    *)
(* decodes a field set and the result is encoded again.                      *)

\* the longest Items list of the field sets explored
MaxEntries == 2

\* the entries of an Items list: a slot inside or just outside the hopper's
\* inventory, an item, and a count up to one more than a stack holds
ItemEntries ==
    [Slot : {0, HopperSlots - 1, HopperSlots}, item : Items,
     Count : {1, MaxCount, MaxCount + 1}]

RECURSIVE SeqsUpTo(_, _)
SeqsUpTo(S, n) ==
    IF n = 0 THEN {<<>>}
    ELSE LET shorter == SeqsUpTo(S, n - 1)
         IN  shorter \cup {Append(q, e) : q \in {x \in shorter : Len(x) = n - 1}, e \in S}

\* the field sets explored: Items always, TransferCooldown and CustomName
\* present or not
FieldSets ==
    {[n \in {"Items"} \cup tcs \cup names |->
         CASE n = "Items" -> its
           [] n = "TransferCooldown" -> tc
           [] n = "CustomName" -> name] :
       its \in SeqsUpTo(ItemEntries, MaxEntries),
       tcs \in {{}, {"TransferCooldown"}}, tc \in {-3, TransferTicks},
       names \in {{}, {"CustomName"}}, name \in {"", "n"}}

\* the hoppers DecodeNBT is called on: placed some time ago, facing down or
\* up, powered or not, holding items and a label; res holds the field set
InitNBT ==
    /\ \E f \in {FaceDown, FaceUp}, p \in BOOLEAN :
         blk = [NewHopper(0) EXCEPT !.Facing = f, !.Powered = p,
                                    !.CustomName = "old", !.TransferCooldown = 5,
                                    !.CollectCooldown = -2, !.LastTick = 7]
    /\ invs = (0 :> Filled(HopperSlots, NewStack("a", 1)))
    /\ viewers = (0 :> {})
    /\ world = [up |-> NoContainer, facing |-> NoContainer]
    /\ \E data \in FieldSets : res = [op |-> "fields", data |-> data]
    /\ now = 0
    /\ notes = <<>>
    /\ reg = {}
    /\ mu = [w |-> FALSE, r |-> {}]
    /\ pc = IdleThreads("idle")
    /\ arg = IdleThreads("v1")
    /\ seen = IdleThreads({})
    /\ atStart = IdleThreads({})
    /\ must = IdleThreads({})
    /\ mustNot = IdleThreads({})
    /\ loc = IdleThreads(NoLocals)

\* Hopper.DecodeNBT of the field set on the stored hopper
DecodeFields ==
    /\ res.op = "fields"
    /\ LET id == Cardinality(DOMAIN invs)
       IN  /\ blk' = Decoded(blk, res.data, id)
           /\ invs' = (id :> InvFromNBT(EmptyInv(HopperSlots),
                                        FieldOr(res.data, "Items", <<>>))) @@ invs
           /\ viewers' = (id :> {}) @@ viewers
    /\ res' = [op |-> "decoded", data |-> res.data]
    /\ UNCHANGED <<world, now, notes, reg, mu, pc, arg, seen, atStart, must, mustNot, loc>>

\* Hopper.EncodeNBT of what DecodeNBT returned
EncodeFields ==
    /\ res.op = "decoded"
    /\ res' = [op |-> "encoded", data |-> res.data,
               out |-> EncodeNBT(blk, invs[blk.inventory])]
    /\ UNCHANGED <<blk, invs, viewers, world, now, notes, reg, mu, pc, arg, seen,
                   atStart, must, mustNot, loc>>

NextNBT == DecodeFields \/ EncodeFields

SpecNBT == InitNBT /\ [][NextNBT]_vars

\* the stacks an Items list names
Entries(items) == {items[i] : i \in DOMAIN items}

\* an Items list as EncodeNBT writes it for a hopper: every entry in a slot of
\* the hopper with no more than a full stack, and no slot named twice
WellFormed(items) ==
    /\ \A e \in Entries(items) : e.Slot \in 0..(HopperSlots - 1) /\ e.Count <= MaxCount
    /\ \A i, j \in DOMAIN items : items[i].Slot = items[j].Slot => i = j

\* the encoded field set gives back the cooldown, the label and the stacks of
\* the field set that was decoded
RoundTrip(data, out) ==
    /\ out["TransferCooldown"] = FieldOr(data, "TransferCooldown", 0)
    /\ FieldOr(out, "CustomName", "") = FieldOr(data, "CustomName", "")
    /\ "CustomName" \in DOMAIN out <=> FieldOr(data, "CustomName", "") # ""
    /\ Entries(out["Items"]) = Entries(FieldOr(data, "Items", <<>>))

(* C13 as stated: for every field set, EncodeNBT(DecodeNBT(fields)) gives    *)
(* back the original TransferCooldown, the original label (CustomName        *)
(* present exactly when the label is non-empty) and the original inventory   *)
(* contents slot for slot.                                                   *)
C13_RoundTripEveryFieldSet ==
    res.op = "encoded" => RoundTrip(res.data, res.out)

(* C13, amended: the round trip gives back cooldown, label and contents for  *)
(* every field set whose Items list names slots of the hopper, each at most  *)
(* once, with counts a stack can hold.                                       *)
C13_RoundTripWellFormed ==
    res.op = "encoded" /\ WellFormed(FieldOr(res.data, "Items", <<>>))
        => RoundTrip(res.data, res.out)

\* a field set with a label, a cooldown and two stacks came back as it was
C13_Witness ==
    /\ res.op = "encoded"
    /\ WellFormed(res.data["Items"])
    /\ Len(res.data["Items"]) = 2
    /\ FieldOr(res.data, "CustomName", "") = "n"
    /\ FieldOr(res.data, "TransferCooldown", 0) = -3
    /\ res.out["Items"] = res.data["Items"]
    /\ res.out["CustomName"] = "n"

\* a field set without a label came back without one
C13_WitnessNoLabel ==
    /\ res.op = "encoded"
    /\ "CustomName" \notin DOMAIN res.data
    /\ "CustomName" \notin DOMAIN res.out
    /\ Len(res.out["Items"]) = 1

(* C14: DecodeNBT returns a hopper whose facing and powered are those of the *)
(* hopper it was called on and whose label and TransferCooldown are the      *)
(* decoded fields; a field set without CustomName gives the empty label, one *)
(* without TransferCooldown gives cooldown 0, and the call goes through for  *)
(* every field set.  The other counters start at 0 and the inventory is a    *)
(* new one.                                                                  *)
C14_DecodeKeepsPlacement ==
    [][res.op = "fields"
       =>
       /\ res'.op = "decoded"
       /\ blk'.Facing = blk.Facing
       /\ blk'.Powered = blk.Powered
       /\ "CustomName" \in DOMAIN res.data => blk'.CustomName = res.data["CustomName"]
       /\ "CustomName" \notin DOMAIN res.data => blk'.CustomName = ""
       /\ "TransferCooldown" \in DOMAIN res.data
             => blk'.TransferCooldown = res.data["TransferCooldown"]
       /\ "TransferCooldown" \notin DOMAIN res.data => blk'.TransferCooldown = 0
       /\ blk'.CollectCooldown = 0 /\ blk'.LastTick = 0
       /\ blk'.inventory # blk.inventory]_vars

\* a powered hopper facing up decoded a field set with neither optional field
C14_Witness ==
    /\ res.op = "decoded"
    /\ DOMAIN res.data = {"Items"}
    /\ blk.Facing = FaceUp /\ blk.Powered
    /\ blk.CustomName = "" /\ blk.TransferCooldown = 0

----------------------------------------------------------------------------
(* Hopper.UseOnBlock: a held hopper is used on a face of a block.            *)

\* cube.Face.Opposite
Opposite(face) ==
    CASE face = "down" -> "up"
      [] face = "up" -> "down"
      [] face = "north" -> "south"
      [] face = "south" -> "north"
      [] face = "west" -> "east"
      [] face = "east" -> "west"

\* faulty variant: the clicked face is not compared with Down
PlacedFacing_Opposite(face) == Opposite(face)

\* the facing UseOnBlock gives the new hopper
PlacedFacing(face) ==
    LET facing == FaceDown
    IN  IF facing # face THEN Opposite(face) ELSE facing

\* allHoppers: the registered hopper states, which hold no inventory (-1)
AllHoppers ==
    {[NewHopper(-1) EXCEPT !.Facing = f, !.Powered = p] : f \in Faces, p \in BOOLEAN}

\* a registered hopper state is held; res holds the clicked face and whether
\* firstReplaceable finds a position to place it at
InitPlace ==
    /\ blk \in AllHoppers
    /\ invs = [i \in {} |-> EmptyInv(HopperSlots)]
    /\ viewers = [i \in {} |-> {}]
    /\ world = [up |-> NoContainer, facing |-> NoContainer]
    /\ \E face \in Faces, used \in BOOLEAN :
         res = [op |-> "held", face |-> face, used |-> used]
    /\ now = 0
    /\ notes = <<>>
    /\ reg = {}
    /\ mu = [w |-> FALSE, r |-> {}]
    /\ pc = IdleThreads("idle")
    /\ arg = IdleThreads("v1")
    /\ seen = IdleThreads({})
    /\ atStart = IdleThreads({})
    /\ must = IdleThreads({})
    /\ mustNot = IdleThreads({})
    /\ loc = IdleThreads(NoLocals)

\* Hopper.UseOnBlock; blk becomes the block stored at the position
UseOnBlock ==
    /\ res.op = "held"
    /\ IF ~res.used
       THEN /\ res' = [op |-> "use", face |-> res.face, placed |-> FALSE]
            /\ UNCHANGED <<blk, invs, viewers>>
       ELSE LET id == Cardinality(DOMAIN invs)
            IN  /\ blk' = [NewHopper(id) EXCEPT !.Facing = PlacedFacing(res.face)]
                /\ invs' = (id :> EmptyInv(HopperSlots)) @@ invs
                /\ viewers' = (id :> {}) @@ viewers
                /\ res' = [op |-> "use", face |-> res.face, placed |-> TRUE]
    /\ UNCHANGED <<world, now, notes, reg, mu, pc, arg, seen, atStart, must, mustNot, loc>>

NextPlace == UseOnBlock

SpecPlace == InitPlace /\ [][NextPlace]_vars

(* C15: when the position is replaceable, UseOnBlock places a newly made     *)
(* hopper (empty inventory, no viewers, both counters and LastTick 0, not    *)
(* powered, no label) whose facing is the opposite of the clicked face,      *)
(* except that a click on face Down places a hopper facing Down; whatever    *)
(* the clicked face, the placed hopper does not face Up.                     *)
C15_PlacedFacing ==
    [][res.op = "held" /\ res.used
       =>
       /\ res'.placed
       /\ blk'.Facing = (IF res.face = FaceDown THEN FaceDown ELSE Opposite(res.face))
       /\ blk'.Facing # FaceUp
       /\ ~blk'.Powered /\ blk'.CustomName = ""
       /\ blk'.TransferCooldown = 0 /\ blk'.CollectCooldown = 0 /\ blk'.LastTick = 0
       /\ blk'.inventory \notin DOMAIN invs
       /\ \A k \in 0..(HopperSlots - 1) : Empty(invs'[blk'.inventory][k])
       /\ DOMAIN invs'[blk'.inventory] = 0..(HopperSlots - 1)
       /\ viewers'[blk'.inventory] = {}]_vars

\* a powered hopper state held facing up was used on the face Down of a block
\* and sits there facing down
C15_Witness ==
    /\ res.op = "use" /\ res.placed /\ res.face = FaceDown
    /\ blk.Facing = FaceDown
    /\ blk.inventory \in DOMAIN invs

\* a click on the north face placed a hopper facing south
C15_WitnessSide ==
    /\ res.op = "use" /\ res.placed /\ res.face = "north"
    /\ blk.Facing = "south"

----------------------------------------------------------------------------
(* Two hoppers next to one container, ticked by two threads at once.  Both   *)
(* are due and unpowered; thread 1 runs insertItem of the hopper owning      *)
(* inventory 0, thread 2 runs extractItem or insertItem of the hopper owning *)
(* inventory 1, on the same container world["shared"].  Every call on an     *)
(* inventory is one step (the inventory locks itself for the length of a     *)
(* call); the hopper takes no lock of its own between its calls.             *)

Runners == {1, 2}

\* the inventory of the hopper thread t ticks
OwnId(t) == t - 1

\* the first non-empty slot of a hopper from slot from on, HopperSlots if none:
\* the loop of insertItem skips the empty stacks
NextSource(inv, from) ==
    LET S == {i \in DOMAIN inv : i >= from /\ ~Empty(inv[i])}
    IN  IF S = {} THEN HopperSlots ELSE MinOf(S)

\* some other thread is between two of its inventory calls
Overlaps(t) ==
    \E u \in Runners \ {t} : pc[u] \notin {"insert", "extract", "done"}

\* history: a step of thread t taken while another thread is in its transfer
Noted(t) == [res EXCEPT !.overlapped = @ \/ Overlaps(t)]

\* the loop of insertItem goes on with the next non-empty slot, or ends
Continue(t, from) ==
    LET k == NextSource(invs[OwnId(t)], from)
    IN  /\ pc' = [pc EXCEPT ![t] = IF k = HopperSlots THEN "done" ELSE "offer"]
        /\ loc' = [loc EXCEPT ![t].sourceSlot = k]

raceRest == <<blk, viewers, now, notes, reg, mu, arg, seen, atStart, must, mustNot>>

\* insertItem: the destination is a container; h.inventory.Slots()
BeginInsert(t) ==
    /\ pc[t] = "insert"
    /\ Continue(t, 0)
    /\ res' = Noted(t)
    /\ UNCHANGED <<invs, world>>
    /\ UNCHANGED raceRest

\* insertItem, plain destination: dest.Inventory().AddItem(one unit)
Offer(t) ==
    /\ pc[t] = "offer"
    /\ world["shared"].kind = "generic"
    /\ LET sourceStack == invs[OwnId(t)][loc[t].sourceSlot]
           a == AddItem(world["shared"].inv, OneUnit(sourceStack))
       IN  IF ~a.ok
           THEN /\ Continue(t, loc[t].sourceSlot + 1)
                /\ UNCHANGED world
           ELSE /\ world' = [world EXCEPT !["shared"].inv = a.inv]
                /\ pc' = [pc EXCEPT ![t] = "take"]
                /\ UNCHANGED loc
    /\ res' = Noted(t)
    /\ UNCHANGED invs
    /\ UNCHANGED raceRest

\* insertItem, HopperInsertable: e.InsertItem(stack, h.Facing) and
\* dest.Inventory().Item(targetSlot)
AskTarget(t) ==
    /\ pc[t] = "offer"
    /\ world["shared"].kind = "special"
    /\ LET sourceStack == invs[OwnId(t)][loc[t].sourceSlot]
           r == InsertItem(world["shared"], OneUnit(sourceStack), FaceDown)
           it == Item(world["shared"].inv, r.slot)
       IN  IF Refused(r.allowed, sourceStack, it)
           THEN Continue(t, loc[t].sourceSlot + 1)
           ELSE /\ pc' = [pc EXCEPT ![t] = "put"]
                /\ loc' = [loc EXCEPT ![t].targetSlot = r.slot, ![t].stack = it]
    /\ res' = Noted(t)
    /\ UNCHANGED <<invs, world>>
    /\ UNCHANGED raceRest

\* insertItem, HopperInsertable: dest.Inventory().SetItem(targetSlot, stack)
PutTarget(t) ==
    /\ pc[t] = "put"
    /\ LET sourceStack == invs[OwnId(t)][loc[t].sourceSlot]
           it == loc[t].stack
           stack == IF ~Empty(it) THEN Grow(it, 1) ELSE OneUnit(sourceStack)
       IN  world' = [world EXCEPT !["shared"].inv =
                        SetItem(world["shared"].inv, loc[t].targetSlot, stack).inv]
    /\ pc' = [pc EXCEPT ![t] = "take"]
    /\ res' = Noted(t)
    /\ UNCHANGED <<invs, loc>>
    /\ UNCHANGED raceRest

\* insertItem: h.inventory.SetItem(sourceSlot, sourceStack.Grow(-1)); return true
TakeSource(t) ==
    /\ pc[t] = "take"
    /\ LET own == invs[OwnId(t)]
       IN  invs' = [invs EXCEPT ![OwnId(t)] =
                       SetItem(own, loc[t].sourceSlot,
                               Remaining(own[loc[t].sourceSlot])).inv]
    /\ pc' = [pc EXCEPT ![t] = "done"]
    /\ res' = Noted(t)
    /\ UNCHANGED <<world, loc>>
    /\ UNCHANGED raceRest

\* extractItem: the scan of origin.Inventory().Slots(), or e.ExtractItem()
ScanOrigin(t) ==
    /\ pc[t] = "extract"
    /\ \E es \in Nominations(world["shared"]) :
         LET target == IF world["shared"].kind # "special"
                       THEN firstStack(world["shared"].inv, 0)
                       ELSE ExtractItem(world["shared"], es)
         IN  /\ loc' = [loc EXCEPT ![t].targetSlot = target.slot,
                                   ![t].stack = target.stack]
             /\ pc' = [pc EXCEPT ![t] = IF Empty(target.stack) THEN "done" ELSE "add"]
    /\ res' = Noted(t)
    /\ UNCHANGED <<invs, world>>
    /\ UNCHANGED raceRest

\* extractItem: h.inventory.AddItem(one unit of targetStack)
AddOwn(t) ==
    /\ pc[t] = "add"
    /\ LET a == AddItem(invs[OwnId(t)], OneUnit(loc[t].stack))
       IN  IF ~a.ok
           THEN /\ pc' = [pc EXCEPT ![t] = "done"]
                /\ UNCHANGED invs
           ELSE /\ invs' = [invs EXCEPT ![OwnId(t)] = a.inv]
                /\ pc' = [pc EXCEPT ![t] = "takeOrigin"]
    /\ res' = Noted(t)
    /\ UNCHANGED <<world, loc>>
    /\ UNCHANGED raceRest

\* extractItem: origin.Inventory().SetItem(targetSlot, targetStack.Grow(-1))
TakeOrigin(t) ==
    /\ pc[t] = "takeOrigin"
    /\ world' = [world EXCEPT !["shared"].inv =
                    SetItem(world["shared"].inv, loc[t].targetSlot,
                            Remaining(loc[t].stack)).inv]
    /\ pc' = [pc EXCEPT ![t] = "done"]
    /\ res' = Noted(t)
    /\ UNCHANGED <<invs, loc>>
    /\ UNCHANGED raceRest

\* the units of item it in the two hoppers and the container between them
RaceTotal(it) ==
    Units(invs[0], it) + Units(invs[1], it) + Units(world["shared"].inv, it)

\* the contents explored: thread 2 extracts or inserts.  The slot a
\* HopperInsertable names has room for every unit offered to it (no slot is
\* full, and its slots are empty when both threads insert), so that no unit is
\* lost to a full slot (C2) when the ticks run one after the other
InitRace ==
    /\ blk = NewHopper(0)
    /\ \E a \in {Only(HopperSlots, 0, NewStack("a", 1)),
                 [Only(HopperSlots, 1, NewStack("a", MaxCount)) EXCEPT ![3] = NewStack("b", 1)]},
          b \in {EmptyInv(HopperSlots),
                 Only(HopperSlots, 0, NewStack("a", 1)),
                 Filled(HopperSlots, NewStack("a", MaxCount))} :
         invs = (0 :> a) @@ (1 :> b)
    /\ viewers = (0 :> {}) @@ (1 :> {})
    /\ \E role \in {"extract", "insert"},
          kind \in {"generic", "special"},
          pol \in Policies,
          c \in {EmptyInv(ContainerSlots),
                 Only(ContainerSlots, 0, NewStack("a", 1)),
                 Filled(ContainerSlots, NewStack("b", MaxCount))} :
         /\ kind = "generic" => pol = Refuse
         /\ kind = "special" => pol # Refuse
         /\ kind = "special" => c # Filled(ContainerSlots, NewStack("b", MaxCount))
         /\ kind = "special" /\ role = "insert" => c = EmptyInv(ContainerSlots)
         /\ world = [shared |-> [kind |-> kind, inv |-> c, pol |-> pol]]
         /\ pc = [t \in Threads |-> IF t = 1 THEN "insert"
                                    ELSE IF t = 2 THEN role ELSE "idle"]
    /\ res = [op |-> "race", overlapped |-> FALSE,
              total |-> [it \in Items |-> RaceTotal(it)]]
    /\ now = 0
    /\ notes = <<>>
    /\ reg = {}
    /\ mu = [w |-> FALSE, r |-> {}]
    /\ arg = IdleThreads("v1")
    /\ seen = IdleThreads({})
    /\ atStart = IdleThreads({})
    /\ must = IdleThreads({})
    /\ mustNot = IdleThreads({})
    /\ loc = IdleThreads(NoLocals)

NextRace ==
    \E t \in Runners :
        \/ BeginInsert(t)
        \/ Offer(t)
        \/ AskTarget(t)
        \/ PutTarget(t)
        \/ TakeSource(t)
        \/ ScanOrigin(t)
        \/ AddOwn(t)
        \/ TakeOrigin(t)

SpecRace == InitRace /\ [][NextRace]_vars

\* both ticks have returned from their transfer
BothDone == \A t \in Runners : pc[t] = "done"

(* C16: two hoppers next to the same container are ticked at the same time,  *)
(* one extracting from it while the other inserts into it, or both inserting *)
(* into it: however their inventory reads and writes interleave, the units   *)
(* of every item in the three inventories together are as many after both    *)
(* ticks as before.                                                          *)
C16_UnitsConservedUnderRace ==
    BothDone => \A it \in Items : RaceTotal(it) = res.total[it]

\* when one tick runs its transfer to the end before the other begins, the
\* units are conserved
C16_ConservedOneAfterTheOther ==
    BothDone /\ ~res.overlapped => \A it \in Items : RaceTotal(it) = res.total[it]

\* an interleaved pair of ticks that moved units and lost none
C16_WitnessInterleaved ==
    /\ BothDone /\ res.overlapped
    /\ \A it \in Items : RaceTotal(it) = res.total[it]
    /\ invs[0] # Only(HopperSlots, 0, NewStack("a", 1))
    /\ Units(invs[0], "a") + Units(invs[0], "b") < MaxCount + 1

----------------------------------------------------------------------------
(* Vocabulary of the failed extract *)

\* the stack the block above puts forward when its choice is es: the first
\* non-empty stack of a plain container, the nominated one of a HopperExtractable
Nominated(origin, es) ==
    IF origin.kind # "special" THEN firstStack(origin.inv, 0).stack
    ELSE Item(origin.inv, es)

\* inventory hinv cannot take a unit of what origin puts forward with choice es:
\* that stack is empty, or no slot of hinv has room for its item
NoTake(hinv, origin, es) ==
    LET s == Nominated(origin, es)
    IN  s.count <= 0 \/ s.item = NoItem \/ ~HasRoom(hinv, s.item)

(* C17: extractItem returns false and changes neither the origin's nor the   *)
(* hopper's inventory when there is no container with an inventory above,    *)
(* when the stack put forward is empty, or when the hopper's inventory       *)
(* cannot take one unit of it.  Stated for extractItem on every state a tick *)
(* starts from, and for the tick itself: then nothing is extracted, the      *)
(* block above is as before and the hopper's inventory is as the insert of   *)
(* the same tick left it.                                                    *)
C17_FailedExtractChangesNothing ==
    [][TickStep
       =>
       /\ \A es \in Nominations(Origin) :
            ~IsContainer(Origin) \/ NoTake(Own, Origin, es)
            => LET r == extractItem(Own, Origin, es)
               IN  ~r.ok /\ r.hinv = Own /\ r.oinv = Origin.inv /\ r.changes = <<>>
       /\ /\ ~blk.Powered /\ Due
          /\ blk.Facing # FaceUp \/ ~res'.inserted
          /\ \/ ~IsContainer(Origin)
             \/ \A es \in Nominations(Origin) : NoTake(AfterInsert, Origin, es)
          => /\ ~res'.extracted
             /\ world'["up"] = world["up"]
             /\ Own' = AfterInsert
             /\ Len(notes') = (IF res'.inserted THEN 1 ELSE 0)]_vars

\* a hopper full of "a" under a plain container holding "a": the tick
\* attempted and took nothing
C17_Witness ==
    /\ res.op = "tick" /\ res.attempted /\ ~res.extracted /\ ~res.inserted
    /\ Own = Filled(HopperSlots, NewStack("a", MaxCount))
    /\ Origin.kind = "generic"
    /\ FirstAbove >= 0
    /\ Origin.inv[FirstAbove].item = "a"

----------------------------------------------------------------------------
----------------------------------------------------------------------------
(* C19: for a hopper made by NewHopper and ticked in any way, with its       *)
(* powered flag changing at will, the block stored in the world always has   *)
(* 0 <= TransferCooldown <= 8 and -8 <= CollectCooldown <= 0.  So            *)
(* CollectCooldown is below 0 after the decrement of every tick, and whether *)
(* a tick attempts a transfer is settled by TransferCooldown (and the        *)
(* powered flag) alone.                                                      *)
C19_CounterRanges ==
    /\ 0 <= blk.TransferCooldown /\ blk.TransferCooldown <= TransferTicks
    /\ -TransferTicks <= blk.CollectCooldown /\ blk.CollectCooldown <= 0
    /\ res.op = "tick" =>
         /\ res.cc < 0
         /\ res.attempted <=> (res.tc < 0 /\ ~res.powered)
         /\ res.cc = blk.CollectCooldown \/ ~res.published \/ blk.CollectCooldown = 0

\* eight ticks after a transfer: both counters at the far end of their ranges
C19_Witness ==
    /\ res.op = "tick" /\ res.published /\ ~res.attempted
    /\ blk.TransferCooldown = 0
    /\ blk.CollectCooldown = -TransferTicks

----------------------------------------------------------------------------
(* A hopper that is never powered and is ticked on every world tick: nothing *)
(* above it, and in front of it a plain container with room for all it      *)
(* holds.  It holds two units, in one stack or in two.                       *)

\* the two units: a stack of two in slot i, or one unit each in slots i and j
TwoUnits ==
    {Only(HopperSlots, i, NewStack(x, 2)) : i \in 0..(HopperSlots - 1), x \in Items}
    \cup
    {[Only(HopperSlots, i, NewStack(x, 1)) EXCEPT ![j] = NewStack(y, 1)] :
        i \in 0..(HopperSlots - 2), j \in 1..(HopperSlots - 1), x \in Items, y \in Items}

InitLive ==
    /\ \E f \in {FaceDown, "north"} : blk = [NewHopper(0) EXCEPT !.Facing = f]
    /\ \E c \in TwoUnits : invs = (0 :> c)
    /\ viewers = (0 :> {})
    /\ \E d \in {EmptyInv(ContainerSlots), Only(ContainerSlots, 0, NewStack("a", 1))} :
         world = [up |-> NoContainer,
                  facing |-> [kind |-> "generic", inv |-> d, pol |-> Refuse]]
    /\ InitRest

NextLive == Tick

\* the world ticks the hopper on every tick: Tick is taken whenever it can be
SpecLive == InitLive /\ [][NextLive]_vars /\ WF_vars(Tick)

\* the hopper holds nothing
OwnEmpty == \A it \in Items : Units(Own, it) = 0

(* C20: a hopper that stays unpowered and is ticked for ever, with nothing   *)
(* above it and facing a plain container that always has room, ends up with  *)
(* an empty inventory, every unit moved; its transfers are exactly 9 ticks   *)
(* apart: a unit moves on the first tick and on every 9th tick after it      *)
(* while the hopper holds something, and on no tick in between (the 8 ticks  *)
(* after a transfer attempt nothing).                                        *)
C20_DrainsEveryNinthTick ==
    /\ <>[]OwnEmpty
    /\ [][TickStep =>
            /\ res'.inserted <=> (now' % (TransferTicks + 1) = 1 /\ ~OwnEmpty)
            /\ now' % (TransferTicks + 1) # 1 /\ ~OwnEmpty => ~res'.attempted
            /\ ~res'.extracted
            /\ \A it \in Items : Total(it)' = Total(it)]_vars

\* tick 10 moved the second unit, nine ticks after the first: the hopper is
\* empty and the container holds what it held
C20_Witness ==
    /\ now = TransferTicks + 2
    /\ res.op = "tick" /\ res.inserted
    /\ OwnEmpty
    /\ blk.TransferCooldown = TransferTicks
    /\ Units(Dest.inv, "a") + Units(Dest.inv, "b") >= 2

====
